---------------------------- MODULE Spec2Model ----------------------------
(***************************************************************************)
(* A model of NasaKG/NasaDataAPI.py: geometry resolution                   *)
(* (parse_cmr_spatial, extract_polygons), scope classification             *)
(* (classify_bbox_scope), the bulk spatial join (bulk_find_admin_areas)    *)
(* and the transformation pipeline (transform_cmr_to_classes).             *)
(*                                                                         *)
(* Python values are modelled as follows.                                  *)
(*   - None, NaN and the empty string are the strings None, NaN and "".    *)
(*   - A descriptor string is the sequence of the numbers str.split() and  *)
(*     float() make of it (only well-formed floats are passed, as the      *)
(*     resolver's contract requires); numbers are integers.                *)
(*   - A shapely geometry is a record [geom_type, parts, geoms]: parts is  *)
(*     the sequence of the vertex rings of its polygons, geoms the members *)
(*     of a GeometryCollection.                                            *)
(*   - A dict that two containers share (location_category_obj,            *)
(*     spatial_extent_obj) lives in a heap and the containers hold its     *)
(*     address, as Python's references do.                                 *)
(*   - An optional integer is [some |-> BOOLEAN, v |-> Int].               *)
(***************************************************************************)
EXTENDS Integers, Sequences, FiniteSets, TLC

VARIABLES
    entries,            \* all_entries, the argument of transform_cmr_to_classes
    pc,                 \* position in transform_cmr_to_classes
    idx,                \* number of records the scan loop has completed
    original_output,    \* the by-field view: nine parallel lists
    individual_output,  \* the per-record view
    loc_heap,           \* the location_category_obj dicts, by address
    se_heap,            \* the spatial_extent_obj dicts, by address
    geoms,              \* the queue of {"dataset_index", "geometry"}
    fail_count,         \* records whose geometry did not resolve
    admin_gdf,          \* what gpd.read_file returned
    joined,             \* the rows of the spatial join
    gpos,               \* number of groups the write-back loop has completed
    join_calls,         \* history: calls of bulk_find_admin_areas so far
    rows_for_dataset,   \* argument of a direct call of classify_bbox_scope
    classification,     \* what that call returned
    admin_shapefile,    \* the file at ADMIN_SHAPEFILE_PATH
    run,                \* number of the call of transform_cmr_to_classes
    first_run,          \* history: what the first call returned
    parse_args,         \* arguments of a direct call of parse_cmr_spatial
    parse_result,       \* what that call returned, or that it raised
    extract_arg,        \* argument of a direct call of extract_polygons
    extract_result,     \* what that call returned
    page_size,          \* argument of fetch_nasa_cmr_all_pages
    max_pages,          \* argument of fetch_nasa_cmr_all_pages
    page_num,           \* the page the loop requests next
    all_data,           \* the entries fetched so far
    fetch_pc,           \* position in fetch_nasa_cmr_all_pages
    cmr_total,          \* the number of collections the CMR server holds
    requested,          \* history: the params of the requests sent so far
    responses           \* history: what each request met

\* the state of fetch_nasa_cmr_all_pages and of the server it queries
fetch_state ==
    <<page_size, max_pages, page_num, all_data, fetch_pc, cmr_total,
      requested, responses>>

vars == <<entries, pc, idx, original_output, individual_output, loc_heap,
          se_heap, geoms, fail_count, admin_gdf, joined, gpos, join_calls,
          rows_for_dataset, classification, admin_shapefile, run, first_run,
          parse_args, parse_result, extract_arg, extract_result,
          fetch_state>>

\* the state outside transform_cmr_to_classes and classify_bbox_scope
elsewhere ==
    <<admin_shapefile, run, first_run, parse_args, parse_result, extract_arg,
      extract_result, fetch_state>>

-----------------------------------------------------------------------------
(* Bounds of the model *)

MaxRecords == 2

MaxRows == 2

MaxDescriptors == 2

MaxMembers == 3

MaxPageSize == 2

MaxPages == 2

MaxCollections == 3

-----------------------------------------------------------------------------
(* Python values *)

None == "None"

NaN == "NaN"

\* bool(v) of an attribute cell: None and "" are falsy, NaN and a name truthy
Truthy(v) == v \notin {None, ""}

\* an optional integer
NoInt == [some |-> FALSE, v |-> 0]

SomeInt(n) == [some |-> TRUE, v |-> n]

Min(S) == CHOOSE x \in S : \A y \in S : x <= y

Max(S) == CHOOSE x \in S : \A y \in S : y <= x

Range(s) == {s[i] : i \in 1..Len(s)}

RECURSIVE Flatten(_)
Flatten(ss) ==
    IF ss = <<>> THEN <<>> ELSE Head(ss) \o Flatten(Tail(ss))

\* the ascending list of a finite set of integers
RECURSIVE SortedSeq(_)
SortedSeq(S) ==
    IF S = {} THEN <<>> ELSE <<Min(S)>> \o SortedSeq(S \ {Min(S)})

\* list(s) of a Python set s: every element once, in the set's iteration
\* order, which the language leaves unspecified (string hashes are salted
\* per process)
ListsOf(S) ==
    {l \in [1..Cardinality(S) -> S] :
        \A i, j \in 1..Cardinality(S) : i # j => l[i] # l[j]}

-----------------------------------------------------------------------------
(* (2) Geometry helpers *)

NoGeom == [geom_type |-> "None", parts |-> <<>>, geoms |-> <<>>]

\* shapely's Polygon(ring)
Polygon(ring) == [geom_type |-> "Polygon", parts |-> <<ring>>, geoms |-> <<>>]

Lons(ring) == {ring[i][1] : i \in 1..Len(ring)}

Lats(ring) == {ring[i][2] : i \in 1..Len(ring)}

\* Two rings whose envelopes share more than a corner point.  For the
\* axis-aligned rectangles of the model this is when their union is connected.
Touching(r1, r2) ==
    LET lo == Max({Min(Lons(r1)), Min(Lons(r2))})
        hi == Min({Max(Lons(r1)), Max(Lons(r2))})
        so == Max({Min(Lats(r1)), Min(Lats(r2))})
        no == Min({Max(Lats(r1)), Max(Lats(r2))})
    IN  lo <= hi /\ so <= no /\ (lo < hi \/ so < no)

\* the indices of the rings connected to those of I
RECURSIVE Reach(_, _)
Reach(I, rings) ==
    LET J == I \cup {j \in 1..Len(rings) :
                        \E i \in I : Touching(rings[i], rings[j])}
    IN  IF J = I THEN I ELSE Reach(J, rings)

\* twice the signed area that a closed ring encloses
RECURSIVE TwiceArea(_)
TwiceArea(ring) ==
    IF Len(ring) < 2 THEN 0
    ELSE ring[1][1] * ring[2][2] - ring[2][1] * ring[1][2]
         + TwiceArea(Tail(ring))

HasArea(ring) == TwiceArea(ring) # 0

\* shapely.ops.unary_union of a list of two or more polygons: one Polygon
\* when the union is connected, a MultiPolygon otherwise.  A polygon without
\* area adds nothing to the union, which is an empty Polygon when no polygon
\* has an area.
UnaryUnion(shapes) ==
    LET rings == SelectSeq(Flatten([i \in 1..Len(shapes) |-> shapes[i].parts]),
                           HasArea)
    IN  [geom_type |-> IF rings = <<>> \/ Reach({1}, rings) = 1..Len(rings)
                       THEN "Polygon" ELSE "MultiPolygon",
         parts |-> rings,
         geoms |-> <<>>]

IsAreal(g) == g.geom_type \in {"Polygon", "MultiPolygon"}

\* extract_polygons with "return polys[0]" for any number of areal members
extract_polygons_first_member(geom) ==
    IF geom = NoGeom THEN NoGeom
    ELSE IF IsAreal(geom) THEN geom
    ELSE IF geom.geom_type = "GeometryCollection"
    THEN LET polys == SelectSeq(geom.geoms, IsAreal)
         IN  IF polys = <<>> THEN NoGeom ELSE polys[1]
    ELSE NoGeom

extract_polygons(geom) ==
    IF geom = NoGeom THEN NoGeom
    ELSE IF IsAreal(geom) THEN geom
    ELSE IF geom.geom_type = "GeometryCollection"
    THEN LET polys == SelectSeq(geom.geoms, IsAreal)
         IN  IF polys = <<>> THEN NoGeom
             ELSE IF Len(polys) = 1 THEN polys[1]
             ELSE UnaryUnion(polys)
    ELSE NoGeom

\* BoxShapes with the numbers read as "west south east north"
BoxShapes_lon_first(coords) ==
    IF Len(coords) = 4
    THEN LET westLon == coords[1]
             southLat == coords[2]
             eastLon == coords[3]
             northLat == coords[4]
         IN  <<Polygon(<< <<westLon, southLat>>, <<eastLon, southLat>>,
                          <<eastLon, northLat>>, <<westLon, northLat>>,
                          <<westLon, southLat>> >>)>>
    ELSE <<>>

\* one box descriptor: the rectangle of a 4-number box, nothing otherwise
BoxShapes(coords) ==
    IF Len(coords) = 4
    THEN LET southLat == coords[1]
             westLon == coords[2]
             northLat == coords[3]
             eastLon == coords[4]
         IN  <<Polygon(<< <<westLon, southLat>>, <<eastLon, southLat>>,
                          <<eastLon, northLat>>, <<westLon, northLat>>,
                          <<westLon, southLat>> >>)>>
    ELSE <<>>

\* one ring descriptor: [raised, shapes, handed], handed being the pairs
\* passed to Polygon().  A descriptor of fewer than 6 numbers is skipped;
\* coords[i+1] raises IndexError at the last number of a descriptor of odd
\* length; shapely (2.x) raises ValueError for a ring of fewer than 4
\* coordinates, which a closed descriptor of 3 pairs is.
RingShapes(coords) ==
    IF Len(coords) < 6
    THEN [raised |-> FALSE, shapes |-> <<>>, handed |-> <<>>]
    ELSE IF Len(coords) % 2 = 1
    THEN [raised |-> TRUE, shapes |-> <<>>, handed |-> <<>>]
    ELSE LET pairs == [k \in 1..(Len(coords) \div 2) |->
                          <<coords[2 * k], coords[2 * k - 1]>>]
             closed == IF pairs[1] # pairs[Len(pairs)]
                       THEN Append(pairs, pairs[1]) ELSE pairs
         IN  IF Len(closed) > 2
             THEN IF Len(closed) < 4
                  THEN [raised |-> TRUE, shapes |-> <<>>,
                        handed |-> <<closed>>]
                  ELSE [raised |-> FALSE, shapes |-> <<Polygon(closed)>>,
                        handed |-> <<closed>>]
             ELSE [raised |-> FALSE, shapes |-> <<>>, handed |-> <<>>]

\* parse_cmr_spatial with each point "lat lon" turned into the box
\* "lat lon lat lon"
parse_cmr_spatial_with_points(boxes, polygons, points) ==
    LET pointBoxes == [i \in 1..Len(points) |-> points[i] \o points[i]]
        allBoxes == boxes \o pointBoxes
        fromBoxes == Flatten([i \in 1..Len(allBoxes) |->
                                 BoxShapes(allBoxes[i])])
        ringStrs == Flatten(polygons)
        fromRings == [i \in 1..Len(ringStrs) |-> RingShapes(ringStrs[i])]
        shapes == fromBoxes
                  \o Flatten([i \in 1..Len(ringStrs) |-> fromRings[i].shapes])
    IN  IF \E i \in 1..Len(ringStrs) : fromRings[i].raised
        THEN [raised |-> TRUE, geometry |-> NoGeom]
        ELSE IF shapes = <<>> THEN [raised |-> FALSE, geometry |-> NoGeom]
        ELSE [raised |-> FALSE,
              geometry |-> extract_polygons(IF Len(shapes) = 1 THEN shapes[1]
                                            ELSE UnaryUnion(shapes))]

\* parse_cmr_spatial with "merged_geom = shapes[0]" for any number of shapes
parse_cmr_spatial_first_shape(boxes, polygons, points) ==
    LET fromBoxes == Flatten([i \in 1..Len(boxes) |-> BoxShapes(boxes[i])])
        ringStrs == Flatten(polygons)
        fromRings == [i \in 1..Len(ringStrs) |-> RingShapes(ringStrs[i])]
        shapes == fromBoxes
                  \o Flatten([i \in 1..Len(ringStrs) |-> fromRings[i].shapes])
    IN  IF \E i \in 1..Len(ringStrs) : fromRings[i].raised
        THEN [raised |-> TRUE, geometry |-> NoGeom]
        ELSE IF shapes = <<>> THEN [raised |-> FALSE, geometry |-> NoGeom]
        ELSE [raised |-> FALSE, geometry |-> extract_polygons(shapes[1])]

\* parse_cmr_spatial: [raised, geometry]; geometry is NoGeom for None
parse_cmr_spatial(boxes, polygons, points) ==
    LET fromBoxes == Flatten([i \in 1..Len(boxes) |-> BoxShapes(boxes[i])])
        ringStrs == Flatten(polygons)
        fromRings == [i \in 1..Len(ringStrs) |-> RingShapes(ringStrs[i])]
        shapes == fromBoxes
                  \o Flatten([i \in 1..Len(ringStrs) |-> fromRings[i].shapes])
    IN  IF \E i \in 1..Len(ringStrs) : fromRings[i].raised
        THEN [raised |-> TRUE, geometry |-> NoGeom]
        ELSE IF shapes = <<>> THEN [raised |-> FALSE, geometry |-> NoGeom]
        ELSE [raised |-> FALSE,
              geometry |-> extract_polygons(IF Len(shapes) = 1 THEN shapes[1]
                                            ELSE UnaryUnion(shapes))]

-----------------------------------------------------------------------------
(* (3) Classification helpers *)

CITY_COL == "NAME_2"

COUNTRY_COL == "ADMIN"

CONTINENT_COL == "CONTINENT"

\* the set the loop over iterrows() builds for one column: the truthy cells
CollectedNames(rows, col) ==
    {rows[i][col] : i \in {j \in 1..Len(rows) : Truthy(rows[j][col])}}

\* scope_decision with the country test moved before the continent test
scope_decision_country_first(n_cities, n_countries, n_continents) ==
    IF n_cities = 1 /\ n_countries = 1 THEN "city"
    ELSE IF n_cities > 1 \/ n_countries = 1 THEN "country"
    ELSE IF n_countries > 1 /\ n_continents = 1 THEN "continent"
    ELSE IF n_continents > 1 THEN "global"
    ELSE "city"

\* scope_decision without its first test
scope_decision_without_city_rule(n_cities, n_countries, n_continents) ==
    IF n_countries > 1 /\ n_continents = 1 THEN "continent"
    ELSE IF n_continents > 1 THEN "global"
    ELSE IF n_cities > 1 \/ n_countries = 1 THEN "country"
    ELSE "city"

\* scope_decision with "at least one continent" in its second test
scope_decision_any_continent(n_cities, n_countries, n_continents) ==
    IF n_cities = 1 /\ n_countries = 1 THEN "city"
    ELSE IF n_countries > 1 /\ n_continents >= 1 THEN "continent"
    ELSE IF n_continents > 1 THEN "global"
    ELSE IF n_cities > 1 \/ n_countries = 1 THEN "country"
    ELSE "city"

\* scope_decision with its third and fourth tests exchanged
scope_decision_country_before_global(n_cities, n_countries, n_continents) ==
    IF n_cities = 1 /\ n_countries = 1 THEN "city"
    ELSE IF n_countries > 1 /\ n_continents = 1 THEN "continent"
    ELSE IF n_cities > 1 \/ n_countries = 1 THEN "country"
    ELSE IF n_continents > 1 THEN "global"
    ELSE "city"

\* scope_decision with "country" as the label of its last branch
scope_decision_country_fallback(n_cities, n_countries, n_continents) ==
    IF n_cities = 1 /\ n_countries = 1 THEN "city"
    ELSE IF n_countries > 1 /\ n_continents = 1 THEN "continent"
    ELSE IF n_continents > 1 THEN "global"
    ELSE IF n_cities > 1 \/ n_countries = 1 THEN "country"
    ELSE "country"

\* the if/elif chain on the sizes of the three sets
scope_decision(n_cities, n_countries, n_continents) ==
    IF n_cities = 1 /\ n_countries = 1 THEN "city"
    ELSE IF n_countries > 1 /\ n_continents = 1 THEN "continent"
    ELSE IF n_continents > 1 THEN "global"
    ELSE IF n_cities > 1 \/ n_countries = 1 THEN "country"
    ELSE "city"

\* classify_bbox_scope: the dicts it can return, one per iteration order of
\* the three sets
classify_bbox_scope(rows) ==
    LET cities == CollectedNames(rows, CITY_COL)
        countries == CollectedNames(rows, COUNTRY_COL)
        continents == CollectedNames(rows, CONTINENT_COL)
        scope == scope_decision(Cardinality(cities), Cardinality(countries),
                                Cardinality(continents))
    IN  {[scope |-> scope, cities |-> c, countries |-> k, continents |-> n] :
            c \in ListsOf(cities), k \in ListsOf(countries),
            n \in ListsOf(continents)}

-----------------------------------------------------------------------------
(* (4) Bulk intersection *)

\* the NaN that a left join puts in index_right of an unmatched row
NullIndex == -1

IsNull(v) == v = NullIndex

\* predicate="intersects" for a boundary feature covering the meridian strip
\* lonW..lonE at every latitude: some polygon of the geometry reaches into
\* the strip (a shared boundary counts)
Intersects(geometry, feature) ==
    \E p \in 1..Len(geometry.parts) :
        /\ Min(Lons(geometry.parts[p])) <= feature.lonE
        /\ feature.lonW <= Max(Lons(geometry.parts[p]))

\* the rows gpd.sjoin(how="left") makes of one row of nasa_gdf: one per
\* intersecting feature, in the features' order, or one row of NaN cells
LeftJoinRows(g, admin) ==
    LET hits == SelectSeq([k \in 1..Len(admin) |-> k],
                          LAMBDA k : Intersects(g.geometry, admin[k]))
    IN  IF hits = <<>>
        THEN <<[dataset_index |-> g.dataset_index, index_right |-> NullIndex,
                NAME_2 |-> NaN, ADMIN |-> NaN, CONTINENT |-> NaN]>>
        ELSE [h \in 1..Len(hits) |->
                [dataset_index |-> g.dataset_index,
                 index_right |-> hits[h] - 1,
                 NAME_2 |-> admin[hits[h]].NAME_2,
                 ADMIN |-> admin[hits[h]].ADMIN,
                 CONTINENT |-> admin[hits[h]].CONTINENT]]

\* bulk_find_admin_areas with how="inner": no row for an unmatched geometry
bulk_find_admin_areas_inner(nasa_gdf, admin) ==
    SelectSeq(Flatten([i \in 1..Len(nasa_gdf) |->
                          LeftJoinRows(nasa_gdf[i], admin)]),
              LAMBDA r : ~IsNull(r.index_right))

\* bulk_find_admin_areas, given what gpd.read_file returned.  nasa_gdf is
\* built with crs EPSG:4326, so the to_crs branch is the one taken; the
\* model's coordinates are already in the boundary dataset's frame.
bulk_find_admin_areas(nasa_gdf, admin) ==
    Flatten([i \in 1..Len(nasa_gdf) |-> LeftJoinRows(nasa_gdf[i], admin)])

\* joined.groupby("dataset_index"): the keys in ascending order
GroupKeys(j) == SortedSeq({j[i].dataset_index : i \in 1..Len(j)})

\* GroupAt with the position in the loop taken for the record index, as
\* "for i, (_, rows) in enumerate(grouped)" would
GroupAtEnumerated(j, k) ==
    [dataset_index |-> k - 1,
     rows |-> SelectSeq(j, LAMBDA r : r.dataset_index = GroupKeys(j)[k])]

\* the k-th (dataset_index, rows) pair the loop over grouped receives
GroupAt(j, k) ==
    LET key == GroupKeys(j)[k]
    IN  [dataset_index |-> key,
         rows |-> SelectSeq(j, LAMBDA r : r.dataset_index = key)]

\* is_unmatched without the test of index_right
is_unmatched_single_row(rows) == Len(rows) = 1

\* the test of the unclassified branch of the write-back loop
is_unmatched(rows) == Len(rows) = 1 /\ IsNull(rows[1].index_right)

-----------------------------------------------------------------------------
(* Inputs: records of the CMR feed and boundary datasets *)

\* time_start / time_end strings that pd.to_datetime parses, with the hour
\* each denotes; any other non-empty string makes pd.to_datetime raise
ParsedHours ==
    [t \in {"2000-01-01T00:00:00Z", "2000-01-02T12:00:00Z",
            "2000-01-04T00:00:00Z", "2000-01-03T00:00:00"} |->
        CASE t = "2000-01-01T00:00:00Z" -> 0
          [] t = "2000-01-02T12:00:00Z" -> 36
          [] t = "2000-01-04T00:00:00Z" -> 72
          [] t = "2000-01-03T00:00:00" -> 48]

\* the strings pd.to_datetime parses into a timestamp that carries a UTC
\* offset (the "Z" suffix); the other parsed strings give a naive timestamp
OffsetAware ==
    {"2000-01-01T00:00:00Z", "2000-01-02T12:00:00Z", "2000-01-04T00:00:00Z"}

\* A record of the feed.  The model's records carry no title, links,
\* summary, original_format or platforms: entry.get returns its default.
Entry(name, boxes, polygons, points, time_start, time_end) ==
    [short_name |-> name, boxes |-> boxes, polygons |-> polygons,
     points |-> points, time_start |-> time_start, time_end |-> time_end]

\* One record per path of the scan: no spatial field, points only, boxes of
\* one, two and three strips, a box over open sea, a box of three numbers, a
\* ring, a box and a ring apart from it, a ring of two points, a ring with
\* an odd number of numbers; and a record whose start carries a UTC offset
\* while its end carries none.
SampleEntries ==
    { Entry("EMPTY", <<>>, <<>>, <<>>, None, None),
      Entry("MIXEDTZ", <<>>, <<>>, <<>>,
            "2000-01-01T00:00:00Z", "2000-01-03T00:00:00"),
      Entry("POINTS", <<>>, <<>>, << <<1, 1>> >>, "2000-01-01T00:00:00Z", None),
      Entry("BOX1", << <<0, 0, 1, 1>> >>, <<>>, <<>>,
            "2000-01-01T00:00:00Z", "2000-01-02T12:00:00Z"),
      Entry("BOX12", << <<0, 0, 1, 3>> >>, <<>>, <<>>,
            "2000-01-02T12:00:00Z", "2000-01-01T00:00:00Z"),
      Entry("BOX123", << <<0, 0, 1, 5>> >>, <<>>, << <<1, 1>> >>,
            "2000-01-01T00:00:00Z", "not a date"),
      Entry("SEA", << <<0, 8, 1, 9>> >>, <<>>, <<>>, "", ""),
      Entry("BOX3TOK", << <<0, 0, 1>> >>, <<>>, <<>>, None, None),
      Entry("RING3", <<>>, << << <<0, 4, 0, 5, 1, 5, 1, 4>> >> >>, <<>>,
            "2000-01-01T00:00:00Z", "2000-01-04T00:00:00Z"),
      Entry("BOX1RING3", << <<0, 0, 1, 1>> >>,
            << << <<0, 4, 0, 5, 1, 5, 1, 4>> >> >>, <<>>, None, None),
      Entry("SHORTRING", <<>>, << << <<0, 0, 1, 1>> >> >>, << <<1, 1>> >>,
            None, None),
      Entry("ODDRING", <<>>, << << <<0, 0, 0, 1, 1, 1, 1>> >> >>, <<>>,
            None, None) }

Feature(lonW, lonE, city, country, continent) ==
    [lonW |-> lonW, lonE |-> lonE, NAME_2 |-> city, ADMIN |-> country,
     CONTINENT |-> continent]

\* What gpd.read_file can return: boundary datasets of meridian strips
\* 0..1, 2..3 and 4..5 with named, unnamed and partly named features, and a
\* dataset without features.  The attribute columns are string columns, whose
\* null cells are read as None.
BoundaryCatalogue ==
    { << Feature(0, 1, "Nice", "France", "Europe"),
         Feature(2, 3, "Monaco", "Monaco", "Europe"),
         Feature(4, 5, None, "Egypt", "Africa") >>,
      << Feature(0, 1, "Nice", "France", "Europe"),
         Feature(2, 3, "Cannes", "France", "Europe"),
         Feature(4, 5, "", "", "Europe") >>,
      << Feature(0, 1, None, None, None),
         Feature(2, 3, "Tunis", None, "Africa"),
         Feature(4, 5, "Cairo", None, "Africa") >>,
      << >> }

\* What the file at ADMIN_SHAPEFILE_PATH is: a boundary dataset, which
\* gpd.read_file returns, or no file or a corrupt one, on which it raises
ReadableFile(features) == [readable |-> TRUE, features |-> features]

UnreadableFile == [readable |-> FALSE, features |-> <<>>]

-----------------------------------------------------------------------------
(* (5) Main transformation *)

\* duration_days_of with the days rounded towards zero
duration_days_truncated(time_start_str, time_end_str) ==
    IF Truthy(time_start_str) /\ Truthy(time_end_str)
    THEN IF /\ time_start_str \in DOMAIN ParsedHours
            /\ time_end_str \in DOMAIN ParsedHours
            /\ (time_start_str \in OffsetAware)
                   = (time_end_str \in OffsetAware)
         THEN LET h == ParsedHours[time_end_str] - ParsedHours[time_start_str]
              IN  SomeInt(IF h < 0 THEN -((-h) \div 24) ELSE h \div 24)
         ELSE NoInt
    ELSE NoInt

\* the try block around pd.to_datetime and the subtraction: the days of the
\* Timedelta between the two timestamps (its floor in days); None when one
\* string is missing or empty, when pd.to_datetime raises on one, and when
\* the subtraction raises TypeError because one timestamp carries a UTC
\* offset and the other does not
duration_days_of(time_start_str, time_end_str) ==
    IF Truthy(time_start_str) /\ Truthy(time_end_str)
    THEN IF /\ time_start_str \in DOMAIN ParsedHours
            /\ time_end_str \in DOMAIN ParsedHours
            /\ (time_start_str \in OffsetAware)
                   = (time_end_str \in OffsetAware)
         THEN SomeInt((ParsedHours[time_end_str]
                       - ParsedHours[time_start_str]) \div 24)
         ELSE NoInt
    ELSE NoInt

EmptyByField ==
    [Dataset |-> <<>>, DataCategory |-> <<>>, DataFormat |-> <<>>,
     LocationCategory |-> <<>>, SpatialExtent |-> <<>>, Station |-> <<>>,
     Relationship |-> <<>>, TemporalExtent |-> <<>>, Duration |-> <<>>]

\* the per-record dict; LocationCategory and SpatialExtent hold the addresses
\* of the dicts the by-field lists hold too
individual_dataset_dict(entry, loc_ref, se_ref) ==
    [Dataset |-> [short_name |-> entry.short_name, title |-> "N/A",
                  links |-> <<>>],
     DataCategory |-> [summary |-> "N/A"],
     DataFormat |-> [original_format |-> "N/A"],
     LocationCategory |-> loc_ref,
     SpatialExtent |-> se_ref,
     Station |-> [platforms |-> <<>>],
     Relationship |-> [hasDataCategory |-> <<>>, hasDataFormat |-> <<>>,
                       definesPeriodFor |-> <<>>],
     TemporalExtent |-> [start_time |-> entry.time_start,
                         end_time |-> entry.time_end],
     Duration |-> [days |-> duration_days_of(entry.time_start,
                                             entry.time_end)]]

\* by_field_append with the Duration append made only for a known duration
by_field_append_sparse(out, entry, loc_ref, se_ref) ==
    LET d == individual_dataset_dict(entry, loc_ref, se_ref)
    IN  [Dataset |-> Append(out.Dataset, d.Dataset),
         DataCategory |-> Append(out.DataCategory, d.DataCategory),
         DataFormat |-> Append(out.DataFormat, d.DataFormat),
         LocationCategory |-> Append(out.LocationCategory, loc_ref),
         SpatialExtent |-> Append(out.SpatialExtent, se_ref),
         Station |-> Append(out.Station, d.Station),
         Relationship |-> Append(out.Relationship, d.Relationship),
         TemporalExtent |-> Append(out.TemporalExtent, d.TemporalExtent),
         Duration |-> IF d.Duration.days.some
                      THEN Append(out.Duration, d.Duration) ELSE out.Duration]

\* the nine appends of one pass of the scan loop
by_field_append(out, entry, loc_ref, se_ref) ==
    LET d == individual_dataset_dict(entry, loc_ref, se_ref)
    IN  [Dataset |-> Append(out.Dataset, d.Dataset),
         DataCategory |-> Append(out.DataCategory, d.DataCategory),
         DataFormat |-> Append(out.DataFormat, d.DataFormat),
         LocationCategory |-> Append(out.LocationCategory, loc_ref),
         SpatialExtent |-> Append(out.SpatialExtent, se_ref),
         Station |-> Append(out.Station, d.Station),
         Relationship |-> Append(out.Relationship, d.Relationship),
         TemporalExtent |-> Append(out.TemporalExtent, d.TemporalExtent),
         Duration |-> Append(out.Duration, d.Duration)]

spatial_extent_obj(entry) ==
    [boxes |-> entry.boxes, polygons |-> entry.polygons,
     points |-> entry.points, place_names |-> <<>>,
     time_start |-> entry.time_start, time_end |-> entry.time_end,
     duration_days |-> duration_days_of(entry.time_start, entry.time_end)]

\* fail_count_after with the increment outside the test
fail_count_after_every_record(count, geometry) == count + 1

\* fail_count_after with the test inverted
fail_count_after_inverted(count, geometry) ==
    IF geometry # NoGeom THEN count + 1 ELSE count

\* fail_count after parse_cmr_spatial returned geometry
fail_count_after(count, geometry) ==
    IF geometry = NoGeom THEN count + 1 ELSE count

\* geoms_after without the "continue" of the unresolved branch
geoms_after_every_record(queue, index, geometry) ==
    Append(queue, [dataset_index |-> index, geometry |-> geometry])

\* geoms after parse_cmr_spatial returned geometry for record index
geoms_after(queue, index, geometry) ==
    IF geometry = NoGeom THEN queue
    ELSE Append(queue, [dataset_index |-> index, geometry |-> geometry])

\* no_valid_geometries without the early return
no_valid_geometries_never(queue) == FALSE

\* "if not geoms": the early return
no_valid_geometries(queue) == queue = <<>>

\* place_names_of with the first listed city only
place_names_first_city(cl) ==
    (IF cl.cities = <<>> THEN <<>> ELSE <<cl.cities[1]>>)
        \o cl.countries \o cl.continents

\* place_names_of with the countries first
place_names_countries_first(cl) == cl.countries \o cl.cities \o cl.continents

\* the list written to place_names
place_names_of(cl) == cl.cities \o cl.countries \o cl.continents

\* the two views' writes of one pass of the write-back loop
StoreCategory(heap, dataset_index, category) ==
    LET byField == [heap EXCEPT
            ![original_output.LocationCategory[dataset_index + 1]].category =
                category]
    IN  [byField EXCEPT
            ![individual_output[dataset_index + 1].LocationCategory].category =
                category]

StorePlaceNames(heap, dataset_index, place_names) ==
    LET byField == [heap EXCEPT
            ![original_output.SpatialExtent[dataset_index + 1]].place_names =
                place_names]
    IN  [byField EXCEPT
            ![individual_output[dataset_index + 1].SpatialExtent].place_names =
                place_names]

NoClassification ==
    [scope |-> None, cities |-> <<>>, countries |-> <<>>, continents |-> <<>>]

\* no direct call of parse_cmr_spatial or extract_polygons is made
\* fetch_nasa_cmr_all_pages is not running
NoFetchCall ==
    /\ page_size = 1
    /\ max_pages = NoInt
    /\ page_num = 1
    /\ all_data = <<>>
    /\ fetch_pc = "idle"
    /\ cmr_total = 0
    /\ requested = <<>>
    /\ responses = <<>>

NoDirectGeometryCall ==
    /\ parse_args = [boxes |-> <<>>, polygons |-> <<>>, points |-> <<>>]
    /\ parse_result = [raised |-> FALSE, geometry |-> NoGeom]
    /\ extract_arg = NoGeom
    /\ extract_result = NoGeom

Init ==
    /\ entries \in UNION {[1..n -> SampleEntries] : n \in 0..MaxRecords}
    /\ pc = "scan"
    /\ idx = 0
    /\ original_output = EmptyByField
    /\ individual_output = <<>>
    /\ loc_heap = <<>>
    /\ se_heap = <<>>
    /\ geoms = <<>>
    /\ fail_count = 0
    /\ admin_gdf = <<>>
    /\ joined = <<>>
    /\ gpos = 0
    /\ join_calls = 0
    /\ rows_for_dataset = <<>>
    /\ classification = NoClassification
    /\ admin_shapefile \in {ReadableFile(features) :
                               features \in BoundaryCatalogue}
                              \cup {UnreadableFile}
    /\ run = 1
    /\ first_run = <<>>
    /\ NoDirectGeometryCall
    /\ NoFetchCall

\* one pass of "for idx, entry in enumerate(all_entries)"
ScanRecord ==
    /\ pc = "scan"
    /\ idx < Len(entries)
    /\ LET entry == entries[idx + 1]
           loc_ref == Len(loc_heap) + 1
           se_ref == Len(se_heap) + 1
           parsed == parse_cmr_spatial(entry.boxes, entry.polygons,
                                       entry.points)
           allocated == Append(loc_heap, [category |-> None])
       IN  /\ original_output' =
                  by_field_append(original_output, entry, loc_ref, se_ref)
           /\ individual_output' =
                  Append(individual_output,
                         individual_dataset_dict(entry, loc_ref, se_ref))
           /\ se_heap' = Append(se_heap, spatial_extent_obj(entry))
           /\ IF parsed.raised
              THEN /\ pc' = "raised"
                   /\ loc_heap' = allocated
                   /\ UNCHANGED <<idx, geoms, fail_count>>
              ELSE /\ pc' = pc
                   /\ idx' = idx + 1
                   /\ fail_count' = fail_count_after(fail_count, parsed.geometry)
                   /\ loc_heap' =
                          IF parsed.geometry = NoGeom
                          THEN [allocated EXCEPT
                                   ![loc_ref].category = "unclassified"]
                          ELSE allocated
                   /\ geoms' = geoms_after(geoms, idx, parsed.geometry)
    /\ UNCHANGED <<entries, admin_gdf, joined, gpos, join_calls,
                   rows_for_dataset, classification, elsewhere>>

\* "if not geoms: return"
ReturnNoGeoms ==
    /\ pc = "scan"
    /\ idx = Len(entries)
    /\ no_valid_geometries(geoms)
    /\ pc' = "returned"
    /\ UNCHANGED <<entries, idx, original_output, individual_output, loc_heap,
                   se_heap, geoms, fail_count, admin_gdf, joined, gpos,
                   join_calls, rows_for_dataset, classification, elsewhere>>

\* bulk_find_admin_areas over the queued geometries, the boundary file read
Join ==
    /\ pc = "scan"
    /\ idx = Len(entries)
    /\ ~no_valid_geometries(geoms)
    /\ admin_shapefile.readable
    /\ admin_gdf' = admin_shapefile.features
    /\ joined' = bulk_find_admin_areas(geoms, admin_gdf')
    /\ join_calls' = join_calls + 1
    /\ gpos' = 0
    /\ pc' = "writeback"
    /\ UNCHANGED <<entries, idx, original_output, individual_output, loc_heap,
                   se_heap, geoms, fail_count, rows_for_dataset,
                   classification, elsewhere>>

\* bulk_find_admin_areas when gpd.read_file raises: the exception leaves
\* transform_cmr_to_classes
JoinLoadFails ==
    /\ pc = "scan"
    /\ idx = Len(entries)
    /\ ~no_valid_geometries(geoms)
    /\ ~admin_shapefile.readable
    /\ join_calls' = join_calls + 1
    /\ pc' = "load_failed"
    /\ UNCHANGED <<entries, idx, original_output, individual_output, loc_heap,
                   se_heap, geoms, fail_count, admin_gdf, joined, gpos,
                   rows_for_dataset, classification, elsewhere>>

\* one pass of "for dataset_index, rows in grouped"
WriteBack ==
    /\ pc = "writeback"
    /\ gpos < Len(GroupKeys(joined))
    /\ LET group == GroupAt(joined, gpos + 1)
       IN  IF is_unmatched(group.rows)
           THEN /\ loc_heap' = StoreCategory(loc_heap, group.dataset_index,
                                             "unclassified")
                /\ se_heap' = StorePlaceNames(se_heap, group.dataset_index,
                                              <<>>)
           ELSE \E cl \in classify_bbox_scope(group.rows) :
                /\ loc_heap' = StoreCategory(loc_heap, group.dataset_index,
                                             cl.scope)
                /\ se_heap' = StorePlaceNames(se_heap, group.dataset_index,
                                              place_names_of(cl))
    /\ gpos' = gpos + 1
    /\ UNCHANGED <<entries, pc, idx, original_output, individual_output, geoms,
                   fail_count, admin_gdf, joined, join_calls, rows_for_dataset,
                   classification, elsewhere>>

\* "return original_output, individual_output, fail_count"
Return ==
    /\ pc = "writeback"
    /\ gpos = Len(GroupKeys(joined))
    /\ pc' = "returned"
    /\ UNCHANGED <<entries, idx, original_output, individual_output, loc_heap,
                   se_heap, geoms, fail_count, admin_gdf, joined, gpos,
                   join_calls, rows_for_dataset, classification, elsewhere>>

Next ==
    \/ ScanRecord
    \/ ReturnNoGeoms
    \/ Join
    \/ JoinLoadFails
    \/ WriteBack
    \/ Return

Spec == Init /\ [][Next]_vars

-----------------------------------------------------------------------------
(* transform_cmr_to_classes on records that span one, three and four       *)
(* boundary features, over boundary datasets of several countries and      *)
(* continents                                                              *)

\* a box on the strip 0..1, a box on the strip 6..7, a box over the strips
\* 0..5, and two rings (lon 0..3 and lon 4..7) whose union covers 0..7
AtlasEntries ==
    { Entry("ONE", << <<0, 0, 1, 1>> >>, <<>>, <<>>, None, None),
      Entry("FOUR", << <<0, 6, 1, 7>> >>, <<>>, <<>>, None, None),
      Entry("THREE", << <<0, 0, 1, 5>> >>, <<>>, <<>>, None, None),
      Entry("RINGS", <<>>,
            << << <<0, 0, 0, 3, 1, 3, 1, 0>>, <<0, 4, 0, 7, 1, 7, 1, 4>> >> >>,
            <<>>, None, None) }

\* three countries of two continents on the strips 2..7; features of three
\* continents on the strips 0..5, one of them alone with a city and a
\* country, and a feature without continent on the strip 6..7
AtlasCatalogue ==
    { << Feature(2, 3, "Nice", "France", "Europe"),
         Feature(4, 5, "Monaco", "Monaco", "Europe"),
         Feature(6, 7, None, "Egypt", "Africa") >>,
      << Feature(0, 1, "Nice", "France", "Europe"),
         Feature(2, 3, None, None, "Africa"),
         Feature(4, 5, "", "", "Asia"),
         Feature(6, 7, "Delhi", "India", None) >> }

InitAtlas ==
    /\ entries \in UNION {[1..n -> AtlasEntries] : n \in 0..MaxRecords}
    /\ admin_shapefile \in {ReadableFile(features) :
                               features \in AtlasCatalogue}
                              \cup {UnreadableFile}
    /\ pc = "scan"
    /\ idx = 0
    /\ original_output = EmptyByField
    /\ individual_output = <<>>
    /\ loc_heap = <<>>
    /\ se_heap = <<>>
    /\ geoms = <<>>
    /\ fail_count = 0
    /\ admin_gdf = <<>>
    /\ joined = <<>>
    /\ gpos = 0
    /\ join_calls = 0
    /\ rows_for_dataset = <<>>
    /\ classification = NoClassification
    /\ run = 1
    /\ first_run = <<>>
    /\ NoDirectGeometryCall
    /\ NoFetchCall

SpecAtlas == InitAtlas /\ [][Next]_vars

-----------------------------------------------------------------------------
(* classify_bbox_scope called on its own, on every group of matched rows of *)
(* at most MaxRows rows                                                     *)

CityCells == {None, "", "Monaco", "Nice"}

CountryCells == {None, "", "Monaco", "France"}

ContinentCells == {None, "Europe", "Africa"}

\* a group of rows of intersecting features: row k joins the k-th feature
MatchedRows(cells) ==
    [k \in 1..Len(cells) |->
        [dataset_index |-> 0, index_right |-> k - 1, NAME_2 |-> cells[k][1],
         ADMIN |-> cells[k][2], CONTINENT |-> cells[k][3]]]

InitClassify ==
    /\ \E n \in 1..MaxRows :
          \E cells \in [1..n -> CityCells \X CountryCells \X ContinentCells] :
             rows_for_dataset = MatchedRows(cells)
    /\ classification = NoClassification
    /\ pc = "classify"
    /\ entries = <<>>
    /\ idx = 0
    /\ original_output = EmptyByField
    /\ individual_output = <<>>
    /\ loc_heap = <<>>
    /\ se_heap = <<>>
    /\ geoms = <<>>
    /\ fail_count = 0
    /\ admin_gdf = <<>>
    /\ joined = <<>>
    /\ gpos = 0
    /\ join_calls = 0
    /\ admin_shapefile = ReadableFile(<<>>)
    /\ run = 1
    /\ first_run = <<>>
    /\ NoDirectGeometryCall
    /\ NoFetchCall

\* classification = classify_bbox_scope(rows)
ClassifyCall ==
    /\ pc = "classify"
    /\ classification' \in classify_bbox_scope(rows_for_dataset)
    /\ pc' = "classified"
    /\ UNCHANGED <<entries, idx, original_output, individual_output, loc_heap,
                   se_heap, geoms, fail_count, admin_gdf, joined, gpos,
                   join_calls, rows_for_dataset, elsewhere>>

NextClassify == ClassifyCall

SpecClassify == InitClassify /\ [][NextClassify]_vars

\* Cells of a boundary dataset whose null cells are read as NaN instead of
\* None (a float column, or a string column under a pandas string dtype
\* whose missing value is NaN); a column the dataset lacks reads as None
\* through row.get.
NullableCityCells == {None, "", NaN, "Nice"}

NullableCountryCells == {None, NaN, "France", "Monaco"}

NullableContinentCells == {"", NaN, "Europe"}

InitNullCells ==
    /\ \E n \in 1..MaxRows :
          \E cells \in [1..n -> NullableCityCells \X NullableCountryCells
                                  \X NullableContinentCells] :
             rows_for_dataset = MatchedRows(cells)
    /\ classification = NoClassification
    /\ pc = "classify"
    /\ entries = <<>>
    /\ idx = 0
    /\ original_output = EmptyByField
    /\ individual_output = <<>>
    /\ loc_heap = <<>>
    /\ se_heap = <<>>
    /\ geoms = <<>>
    /\ fail_count = 0
    /\ admin_gdf = <<>>
    /\ joined = <<>>
    /\ gpos = 0
    /\ join_calls = 0
    /\ admin_shapefile = ReadableFile(<<>>)
    /\ run = 1
    /\ first_run = <<>>
    /\ NoDirectGeometryCall
    /\ NoFetchCall

SpecNullCells == InitNullCells /\ [][NextClassify]_vars

-----------------------------------------------------------------------------
(* parse_cmr_spatial called on its own, on every record of at most         *)
(* MaxDescriptors box descriptors and MaxDescriptors ring descriptors      *)

\* Box descriptors: three rectangles (two of them sharing an edge), a box
\* whose north and east are below its south and west, the box "0 0 0 0" and
\* a box of three numbers
BoxDescriptors ==
    { <<0, 0, 1, 1>>, <<0, 1, 1, 2>>, <<0, 4, 1, 5>>, <<1, 5, 0, 4>>,
      <<0, 0, 0, 0>>, <<0, 0, 1>> }

\* Ring descriptors: an open ring of four points, a closed triangle, a ring
\* of two points, a ring with an odd number of numbers, an open ring of
\* three pairs of which two are equal, a closed ring of three pairs
RingDescriptors ==
    { <<0, 4, 0, 5, 1, 5, 1, 4>>, <<0, 0, 0, 1, 1, 1, 0, 0>>, <<0, 0, 1, 1>>,
      <<0, 0, 0, 1, 1, 1, 1>>, <<0, 0, 0, 1, 0, 1>>, <<0, 0, 0, 1, 0, 0>> }

SeqsUpTo(S, n) == UNION {[1..k -> S] : k \in 0..n}

\* the ring descriptors of a record in one group, or in a group each
PolygonGroups(ringStrs) ==
    IF ringStrs = <<>> THEN {<<>>}
    ELSE {<<ringStrs>>, [k \in 1..Len(ringStrs) |-> <<ringStrs[k]>>]}

\* the locals of transform_cmr_to_classes and classify_bbox_scope when
\* neither is called
NoPipelineCall ==
    /\ entries = <<>>
    /\ idx = 0
    /\ original_output = EmptyByField
    /\ individual_output = <<>>
    /\ loc_heap = <<>>
    /\ se_heap = <<>>
    /\ geoms = <<>>
    /\ fail_count = 0
    /\ admin_gdf = <<>>
    /\ joined = <<>>
    /\ gpos = 0
    /\ join_calls = 0
    /\ rows_for_dataset = <<>>
    /\ classification = NoClassification
    /\ admin_shapefile = ReadableFile(<<>>)
    /\ run = 1
    /\ first_run = <<>>

InitParse ==
    /\ \E boxes \in SeqsUpTo(BoxDescriptors, MaxDescriptors) :
          \E ringStrs \in SeqsUpTo(RingDescriptors, MaxDescriptors) :
             \E polygons \in PolygonGroups(ringStrs) :
                \E points \in {<<>>, << <<1, 1>> >>} :
                   parse_args = [boxes |-> boxes, polygons |-> polygons,
                                 points |-> points]
    /\ parse_result = [raised |-> FALSE, geometry |-> NoGeom]
    /\ extract_arg = NoGeom
    /\ extract_result = NoGeom
    /\ pc = "parse"
    /\ NoPipelineCall
    /\ NoFetchCall

\* parse_result = parse_cmr_spatial(boxes, polygons, points), or the call
\* raised
ParseCall ==
    /\ pc = "parse"
    /\ parse_result' = parse_cmr_spatial(parse_args.boxes, parse_args.polygons,
                                         parse_args.points)
    /\ pc' = "parsed"
    /\ UNCHANGED <<entries, idx, original_output, individual_output, loc_heap,
                   se_heap, geoms, fail_count, admin_gdf, joined, gpos,
                   join_calls, rows_for_dataset, classification,
                   admin_shapefile, run, first_run, parse_args, extract_arg,
                   extract_result, fetch_state>>

NextParse == ParseCall

SpecParse == InitParse /\ [][NextParse]_vars

-----------------------------------------------------------------------------
(* extract_polygons called on its own, on None, on geometries of every     *)
(* type and on every GeometryCollection of at most MaxMembers members      *)

PointGeom == [geom_type |-> "Point", parts |-> <<>>, geoms |-> <<>>]

LineGeom == [geom_type |-> "LineString", parts |-> <<>>, geoms |-> <<>>]

\* the unit square whose west side is at longitude lonW
SquareRing(lonW) ==
    << <<lonW, 0>>, <<lonW + 1, 0>>, <<lonW + 1, 1>>, <<lonW, 1>>, <<lonW, 0>> >>

MultiPolygonGeom ==
    [geom_type |-> "MultiPolygon", parts |-> <<SquareRing(0), SquareRing(4)>>,
     geoms |-> <<>>]

GeometryCollection(members) ==
    [geom_type |-> "GeometryCollection", parts |-> <<>>, geoms |-> members]

\* a point, a line, three squares (two that share a side, one apart) and a
\* multi-polygon
MemberGeoms ==
    {PointGeom, LineGeom, Polygon(SquareRing(0)), Polygon(SquareRing(1)),
     Polygon(SquareRing(4)), MultiPolygonGeom}

InitExtract ==
    /\ extract_arg \in
          {NoGeom} \cup MemberGeoms
          \cup {GeometryCollection(members) :
                   members \in SeqsUpTo(MemberGeoms, MaxMembers)}
    /\ extract_result = NoGeom
    /\ parse_args = [boxes |-> <<>>, polygons |-> <<>>, points |-> <<>>]
    /\ parse_result = [raised |-> FALSE, geometry |-> NoGeom]
    /\ pc = "extract"
    /\ NoPipelineCall
    /\ NoFetchCall

\* extract_result = extract_polygons(geom)
ExtractCall ==
    /\ pc = "extract"
    /\ extract_result' = extract_polygons(extract_arg)
    /\ pc' = "extracted"
    /\ UNCHANGED <<entries, idx, original_output, individual_output, loc_heap,
                   se_heap, geoms, fail_count, admin_gdf, joined, gpos,
                   join_calls, rows_for_dataset, classification,
                   admin_shapefile, run, first_run, parse_args, parse_result,
                   extract_arg, fetch_state>>

NextExtract == ExtractCall

SpecExtract == InitExtract /\ [][NextExtract]_vars

-----------------------------------------------------------------------------
(* (1) Fetch: fetch_nasa_cmr_all_pages by itself.  The server holds
   cmr_total collections, numbered from 1, and pages them in this order.  A
   response with status 2xx carries a JSON object whose feed, when present,
   is an object and whose entry, when present, is a list. *)

\* data["feed"]["entry"] of page p when the server answers in full: the
\* collections of that page; the empty list past the end of the catalogue
ServerEntries(total, size, p) ==
    [k \in 1..Max({0, Min({size, total - (p - 1) * size})}) |->
        (p - 1) * size + k]

\* the params of one request
Params(size, num) == [page_size |-> size, page_num |-> num]

\* limit_reached with the test made one page late
limit_reached_late(limit, num) ==
    limit.some /\ limit.v # 0 /\ num > limit.v + 1

\* "max_pages and page_num > max_pages": None and 0 set no limit
limit_reached(limit, num) ==
    limit.some /\ limit.v # 0 /\ num > limit.v

\* the state outside fetch_nasa_cmr_all_pages
outside_fetch ==
    <<entries, pc, idx, original_output, individual_output, loc_heap,
      se_heap, geoms, fail_count, admin_gdf, joined, gpos, join_calls,
      rows_for_dataset, classification, admin_shapefile, run, first_run,
      parse_args, parse_result, extract_arg, extract_result>>

InitFetch ==
    /\ page_size \in 1..MaxPageSize
    /\ max_pages \in {NoInt} \cup {SomeInt(n) : n \in 0..MaxPages}
    /\ cmr_total \in 0..MaxCollections
    /\ page_num = 1
    /\ all_data = <<>>
    /\ fetch_pc = "loop"
    /\ requested = <<>>
    /\ responses = <<>>
    /\ pc = "fetch"
    /\ NoPipelineCall
    /\ NoDirectGeometryCall

\* a pass of the loop whose response carries a non-empty feed.entry: the
\* entries are appended, the page number advances, and the loop is left
\* when the page limit is passed
PageWithEntries ==
    /\ fetch_pc = "loop"
    /\ LET page == ServerEntries(cmr_total, page_size, page_num)
       IN  /\ page # <<>>
           /\ all_data' = all_data \o page
    /\ requested' = Append(requested, Params(page_size, page_num))
    /\ responses' = Append(responses, "entries")
    /\ page_num' = page_num + 1
    /\ fetch_pc' = IF limit_reached(max_pages, page_num + 1)
                   THEN "returned" ELSE "loop"
    /\ UNCHANGED <<page_size, max_pages, cmr_total, outside_fetch>>

\* a pass whose response has no feed, a feed without entry, or an empty
\* entry list (the page past the end of the catalogue): break, return
PageWithoutEntries ==
    /\ fetch_pc = "loop"
    /\ \E lack \in {"no_feed", "no_entry", "empty"} :
          /\ lack = "empty" =>
                ServerEntries(cmr_total, page_size, page_num) = <<>>
          /\ responses' = Append(responses, lack)
    /\ requested' = Append(requested, Params(page_size, page_num))
    /\ fetch_pc' = "returned"
    /\ UNCHANGED <<page_size, max_pages, page_num, all_data, cmr_total,
                   outside_fetch>>

\* a pass whose requests.get raises Timeout: break, return
RequestTimesOut ==
    /\ fetch_pc = "loop"
    /\ requested' = Append(requested, Params(page_size, page_num))
    /\ responses' = Append(responses, "timeout")
    /\ fetch_pc' = "returned"
    /\ UNCHANGED <<page_size, max_pages, page_num, all_data, cmr_total,
                   outside_fetch>>

\* a pass whose requests.get raises another RequestException (no
\* connection), or whose raise_for_status raises HTTPError: break, return
RequestFails ==
    /\ fetch_pc = "loop"
    /\ requested' = Append(requested, Params(page_size, page_num))
    /\ responses' = Append(responses, "error")
    /\ fetch_pc' = "returned"
    /\ UNCHANGED <<page_size, max_pages, page_num, all_data, cmr_total,
                   outside_fetch>>

NextFetch ==
    \/ PageWithEntries
    \/ PageWithoutEntries
    \/ RequestTimesOut
    \/ RequestFails

SpecFetch == InitFetch /\ [][NextFetch]_vars

\* The loop is sequential code and every request returns or raises within
\* its timeout: a pass that can be made is made.
SpecFetchLive == SpecFetch /\ WF_vars(NextFetch)

-----------------------------------------------------------------------------
(* What the claims speak of *)

ScopeLabels == {"city", "country", "continent", "global"}

\* the scope label of record i (from 1) in each view
ByFieldCategory(i) == loc_heap[original_output.LocationCategory[i]].category

PerRecordCategory(i) == loc_heap[individual_output[i].LocationCategory].category

\* the place names of record i (from 1) in each view
ByFieldPlaceNames(i) == se_heap[original_output.SpatialExtent[i]].place_names

PerRecordPlaceNames(i) == se_heap[individual_output[i].SpatialExtent].place_names

\* what geometry resolution makes of input record i (from 1)
Resolved(i) ==
    parse_cmr_spatial(entries[i].boxes, entries[i].polygons, entries[i].points)

\* the loaded boundary features that intersect the geometry of record i
Hits(i) ==
    LET geometry == Resolved(i).geometry
    IN  {k \in 1..Len(admin_gdf) : Intersects(geometry, admin_gdf[k])}

\* the records whose geometry resolved / did not resolve
ResolvedRecords == {i \in 1..Len(entries) : Resolved(i).geometry # NoGeom}

UnresolvedRecords == {i \in 1..Len(entries) : Resolved(i).geometry = NoGeom}

UnclassifiedRecords ==
    {i \in 1..Len(individual_output) : ByFieldCategory(i) = "unclassified"}

\* Distinct non-empty values of one attribute among the features that
\* intersect record i, in the order the join rows first produce them (the
\* rows of a group come in the features' order)
DiscoveryOrder(i, col) ==
    LET hits == Hits(i)
        firsts == {k \in hits :
                      /\ admin_gdf[k][col] \notin {None, ""}
                      /\ \A j \in hits :
                            j < k => admin_gdf[j][col] # admin_gdf[k][col]}
        order == SortedSeq(firsts)
    IN  [n \in 1..Len(order) |-> admin_gdf[order[n]][col]]

\* s lists every element of the range of t exactly once
IsReordering(s, t) ==
    /\ Len(s) = Len(t)
    /\ Range(s) = Range(t)
    /\ \A a, b \in 1..Len(s) : a # b => s[a] # s[b]

-----------------------------------------------------------------------------
(* C1 *)

\* the distinct non-empty cells of one column of a group of rows
DistinctCells(rows, col) == {rows[k][col] : k \in 1..Len(rows)} \ {None, ""}

\* the five rules of the claim, in its order
ScopeRules(n_cities, n_countries, n_continents) ==
    << [holds |-> n_cities = 1 /\ n_countries = 1, label |-> "city"],
       [holds |-> n_countries > 1 /\ n_continents = 1, label |-> "continent"],
       [holds |-> n_continents > 1, label |-> "global"],
       [holds |-> n_cities > 1 \/ n_countries = 1, label |-> "country"],
       [holds |-> TRUE, label |-> "city"] >>

FirstMatching(rules) ==
    rules[Min({r \in 1..Len(rules) : rules[r].holds})].label

\* C1: for every group of rows of intersecting features, the scope that
\* classify_bbox_scope returns is the label of the first of the five rules
\* (1 city and 1 country -> city; more than 1 country and 1 continent ->
\* continent; more than 1 continent -> global; more than 1 city or 1 country
\* -> country; otherwise city) that the numbers of distinct city, country and
\* continent names of the group satisfy.
C1_FirstMatchingRule ==
    pc = "classified" =>
        classification.scope =
            FirstMatching(ScopeRules(
                Cardinality(DistinctCells(rows_for_dataset, CITY_COL)),
                Cardinality(DistinctCells(rows_for_dataset, COUNTRY_COL)),
                Cardinality(DistinctCells(rows_for_dataset, CONTINENT_COL))))

\* a group that satisfies rule 2 and rule 4 and is labelled by rule 2
C1_Witness ==
    /\ pc = "classified"
    /\ Cardinality(DistinctCells(rows_for_dataset, CITY_COL)) > 1
    /\ Cardinality(DistinctCells(rows_for_dataset, COUNTRY_COL)) > 1
    /\ Cardinality(DistinctCells(rows_for_dataset, CONTINENT_COL)) = 1
    /\ classification.scope = "continent"

-----------------------------------------------------------------------------
(* C2 *)

ByFieldLengths ==
    {Len(original_output.Dataset), Len(original_output.DataCategory),
     Len(original_output.DataFormat), Len(original_output.LocationCategory),
     Len(original_output.SpatialExtent), Len(original_output.Station),
     Len(original_output.Relationship), Len(original_output.TemporalExtent),
     Len(original_output.Duration)}

\* C2: after each pass of the scan loop, and at both returns, the nine
\* by-field lists and the per-record list all have the length idx, the number
\* of records processed so far; at a return that is the number of input
\* records.
C2_ParallelLengths ==
    /\ pc # "raised" =>
          ByFieldLengths \cup {Len(individual_output)} = {idx}
    /\ pc = "returned" => idx = Len(entries)

\* a run that returned after a record without geometry left the loop body
\* early and another record was queued
C2_Witness ==
    /\ pc = "returned"
    /\ Len(entries) = 2
    /\ fail_count = 1
    /\ Len(geoms) = 1

-----------------------------------------------------------------------------
(* C3 *)

ViewsAgree ==
    \A i \in 1..Len(individual_output) :
        /\ ByFieldCategory(i) = PerRecordCategory(i)
        /\ ByFieldPlaceNames(i) = PerRecordPlaceNames(i)
        /\ original_output.Dataset[i].short_name = entries[i].short_name
        /\ individual_output[i].Dataset = original_output.Dataset[i]
        /\ se_heap[original_output.SpatialExtent[i]].boxes = entries[i].boxes
        /\ se_heap[individual_output[i].SpatialExtent].boxes = entries[i].boxes

\* a step changes the label and the place names of record i, in either view,
\* only when it is the write-back of the group of record i
OnlyOwnIndexWritten ==
    \A i \in 1..Len(individual_output) :
        \/ /\ ByFieldCategory(i)' = ByFieldCategory(i)
           /\ PerRecordCategory(i)' = PerRecordCategory(i)
           /\ ByFieldPlaceNames(i)' = ByFieldPlaceNames(i)
           /\ PerRecordPlaceNames(i)' = PerRecordPlaceNames(i)
        \/ /\ pc = "writeback"
           /\ gpos < Len(GroupKeys(joined))
           /\ i = GroupKeys(joined)[gpos + 1] + 1

\* C3: at every point of a run the two views agree at every index already
\* processed (same label, same place names) and both hold the data of the
\* input record of that index; a write-back changes the record of its own
\* group only.
C3_ViewsAligned == [](ViewsAgree) /\ [][OnlyOwnIndexWritten]_vars

\* a run that returned with record 1 left unresolved and record 2 written
\* back with a scope
C3_Witness ==
    /\ pc = "returned"
    /\ Len(entries) = 2
    /\ ByFieldCategory(1) = "unclassified"
    /\ PerRecordCategory(2) \in ScopeLabels
    /\ PerRecordPlaceNames(2) # <<>>

-----------------------------------------------------------------------------
(* C4 *)

\* C4: when a run has returned, a record is unclassified exactly when its
\* geometry did not resolve or no feature of the boundary dataset intersects
\* it, and an unclassified record has no place names.
C4_UnclassifiedIff ==
    pc = "returned" =>
        \A i \in 1..Len(entries) :
            /\ ByFieldCategory(i) = "unclassified"
                  <=> (Resolved(i).geometry = NoGeom \/ Hits(i) = {})
            /\ ByFieldCategory(i) = "unclassified" =>
                  ByFieldPlaceNames(i) = <<>>

\* a run with a record unclassified although its geometry resolved, and a
\* record with a scope
C4_Witness ==
    /\ pc = "returned"
    /\ \E i, j \in 1..Len(entries) :
          /\ Resolved(i).geometry # NoGeom
          /\ ByFieldCategory(i) = "unclassified"
          /\ ByFieldCategory(j) \in ScopeLabels

-----------------------------------------------------------------------------
(* C5 *)

\* C5: for a scanned record without boxes and without polygons, whatever its
\* points, parse_cmr_spatial returned None, and the record is unclassified
\* with no place names from then on, to the end of the run.
C5_EmptySpatialUnclassified ==
    \A i \in 1..idx :
        (entries[i].boxes = <<>> /\ entries[i].polygons = <<>>) =>
            /\ Resolved(i) = [raised |-> FALSE, geometry |-> NoGeom]
            /\ \A g \in Range(geoms) : g.dataset_index # i - 1
            /\ ByFieldCategory(i) = "unclassified"
            /\ PerRecordCategory(i) = "unclassified"
            /\ ByFieldPlaceNames(i) = <<>>
            /\ PerRecordPlaceNames(i) = <<>>

\* a run that returned after a join, with a record that has points only
C5_Witness ==
    /\ pc = "returned"
    /\ join_calls = 1
    /\ \E i \in 1..Len(entries) :
          /\ entries[i].boxes = <<>>
          /\ entries[i].polygons = <<>>
          /\ entries[i].points # <<>>
          /\ ByFieldCategory(i) = "unclassified"

-----------------------------------------------------------------------------
(* C6 *)

\* C6: after each pass of the scan loop the unresolved counter plus the
\* number of queued geometries is the number of records processed, and the
\* counter is the number of processed records whose geometry resolution
\* returned None; so at a return it is the number of such input records.
C6_CounterExact ==
    pc # "raised" =>
        /\ fail_count + Len(geoms) = idx
        /\ fail_count = Cardinality(UnresolvedRecords \cap 1..idx)
        /\ pc = "returned" => fail_count = Cardinality(UnresolvedRecords)

\* a return with one record counted and one queued
C6_Witness ==
    /\ pc = "returned"
    /\ fail_count = 1
    /\ Cardinality(ResolvedRecords) = 1
    /\ join_calls = 1

-----------------------------------------------------------------------------
(* C7 *)

\* C7 as stated: at a return the unresolved count is the number of records
\* whose final location category is unclassified.
C7_Original ==
    pc = "returned" => fail_count = Cardinality(UnclassifiedRecords)

\* C7 amended: at a return the unresolved count is the number of records
\* whose geometry did not resolve; the records that are unclassified are
\* those and, in addition, the records whose resolved geometry intersects no
\* boundary feature, which the count leaves out.
C7_CountsUnresolvedOnly ==
    pc = "returned" =>
        /\ fail_count = Cardinality(UnresolvedRecords)
        /\ UnclassifiedRecords =
              UnresolvedRecords \cup {i \in ResolvedRecords : Hits(i) = {}}

\* a return where the count is below the number of unclassified records
C7_Witness ==
    /\ pc = "returned"
    /\ fail_count = 1
    /\ Cardinality(UnclassifiedRecords) = 2

-----------------------------------------------------------------------------
(* C8 *)

JoinedIndices == {joined[r].dataset_index : r \in 1..Len(joined)}

\* C8 as stated: every run that returns has performed the bulk join once.
C8_Original == pc = "returned" => join_calls = 1

\* C8 amended: the bulk join (with its load of the boundary dataset) is
\* performed at most once in a run, only after every input record has been
\* scanned, and not at all when no geometry resolved: a run that returns has
\* performed it once when at least one geometry resolved and never
\* otherwise.  It is over exactly the records whose geometry resolved; a
\* record whose geometry was absent is never submitted and is unclassified
\* before any join.
C8_JoinAtMostOnce ==
    /\ join_calls <= 1
    /\ join_calls = 1 => (idx = Len(entries) /\ geoms # <<>>)
    /\ pc = "returned" => (join_calls = 1 <=> ResolvedRecords # {})
    /\ pc \in {"writeback", "returned"} =>
          JoinedIndices = {i - 1 : i \in ResolvedRecords}
    /\ \A i \in 1..idx :
          Resolved(i).geometry = NoGeom =>
              /\ ByFieldCategory(i) = "unclassified"
              /\ i - 1 \notin JoinedIndices

\* a return after one join in a run that also had an unresolved record
C8_Witness ==
    /\ pc = "returned"
    /\ join_calls = 1
    /\ fail_count = 1
    /\ Len(joined) > 1

-----------------------------------------------------------------------------
(* C9 *)

\* C9: every queued geometry has at least one row in the join's output and
\* is the key of exactly one group, and when a run has returned every
\* record's location category is city, country, continent, global or
\* unclassified, never the initial None.
C9_EveryRecordLabelled ==
    /\ pc \in {"writeback", "returned"} =>
          /\ \A g \in Range(geoms) :
                \E r \in 1..Len(joined) :
                    joined[r].dataset_index = g.dataset_index
          /\ \A g \in Range(geoms) :
                Cardinality({k \in 1..Len(GroupKeys(joined)) :
                    GroupKeys(joined)[k] = g.dataset_index}) = 1
    /\ pc = "returned" =>
          \A i \in 1..Len(entries) :
              /\ ByFieldCategory(i) \in ScopeLabels \cup {"unclassified"}
              /\ PerRecordCategory(i) \in ScopeLabels \cup {"unclassified"}

\* a return where a geometry without intersecting feature came through the
\* join as a row
C9_Witness ==
    /\ pc = "returned"
    /\ admin_gdf # <<>>
    /\ \E r \in 1..Len(joined) :
          /\ IsNull(joined[r].index_right)
          /\ ByFieldCategory(joined[r].dataset_index + 1) = "unclassified"

-----------------------------------------------------------------------------
(* C10 *)

ClassifiedRecords ==
    {i \in 1..Len(individual_output) : ByFieldCategory(i) \in ScopeLabels}

\* C10 as stated: the place names of a classified record are its city names,
\* then its country names, then its continent names, each part in discovery
\* order.
C10_Original ==
    \A i \in ClassifiedRecords :
        ByFieldPlaceNames(i) =
            DiscoveryOrder(i, CITY_COL) \o DiscoveryOrder(i, COUNTRY_COL)
                \o DiscoveryOrder(i, CONTINENT_COL)

\* C10 amended: the place names of a classified record are its city names,
\* then its country names, then its continent names; each part holds every
\* distinct name of its category exactly once, in an order that is not
\* specified (the iteration order of a set, not the discovery order); a name
\* of two categories is in both parts.
C10_PartsInSetOrder ==
    \A i \in ClassifiedRecords :
        LET c == DiscoveryOrder(i, CITY_COL)
            k == DiscoveryOrder(i, COUNTRY_COL)
            n == DiscoveryOrder(i, CONTINENT_COL)
            names == ByFieldPlaceNames(i)
        IN  /\ Len(names) = Len(c) + Len(k) + Len(n)
            /\ IsReordering(SubSeq(names, 1, Len(c)), c)
            /\ IsReordering(SubSeq(names, Len(c) + 1, Len(c) + Len(k)), k)
            /\ IsReordering(SubSeq(names, Len(c) + Len(k) + 1, Len(names)), n)
            /\ PerRecordPlaceNames(i) = names

\* a record with two cities, one of them also one of its two countries,
\* whose cities are not listed in discovery order
C10_Witness ==
    \E i \in ClassifiedRecords :
        /\ Len(DiscoveryOrder(i, CITY_COL)) = 2
        /\ Range(DiscoveryOrder(i, CITY_COL))
              \cap Range(DiscoveryOrder(i, COUNTRY_COL)) # {}
        /\ Len(ByFieldPlaceNames(i)) = 5
        /\ SubSeq(ByFieldPlaceNames(i), 1, 2) # DiscoveryOrder(i, CITY_COL)

-----------------------------------------------------------------------------
(* C11 *)

\* what a call has returned, per record: the scope label and the set of the
\* place names
Outcome ==
    [i \in 1..Len(individual_output) |->
        [category |-> ByFieldCategory(i),
         place_names |-> Range(ByFieldPlaceNames(i))]]

\* transform_cmr_to_classes called a second time, on the same records: its
\* locals are made anew; the boundary file is as it was
CallAgain ==
    /\ pc = "returned"
    /\ run = 1
    /\ run' = 2
    /\ first_run' = Outcome
    /\ pc' = "scan"
    /\ idx' = 0
    /\ original_output' = EmptyByField
    /\ individual_output' = <<>>
    /\ loc_heap' = <<>>
    /\ se_heap' = <<>>
    /\ geoms' = <<>>
    /\ fail_count' = 0
    /\ admin_gdf' = <<>>
    /\ joined' = <<>>
    /\ gpos' = 0
    /\ join_calls' = 0
    /\ UNCHANGED <<entries, rows_for_dataset, classification, admin_shapefile,
                   parse_args, parse_result, extract_arg, extract_result,
                   fetch_state>>

NextTwice ==
    \/ ScanRecord
    \/ ReturnNoGeoms
    \/ Join
    \/ JoinLoadFails
    \/ WriteBack
    \/ Return
    \/ CallAgain

SpecTwice == Init /\ [][NextTwice]_vars

\* C11: when the pipeline is run a second time on the same input records
\* and the same boundary dataset, every record index has, at the second
\* return, the scope label and the set of place names it had at the first,
\* and the second run has scanned the same number of records.
C11_SecondRunAgrees ==
    (pc = "returned" /\ run = 2) =>
        /\ Len(individual_output) = Len(first_run)
        /\ \A i \in 1..Len(first_run) :
              /\ ByFieldCategory(i) = first_run[i].category
              /\ Range(ByFieldPlaceNames(i)) = first_run[i].place_names

\* a second return with a record that has several city names and a record
\* that is unclassified
C11_Witness ==
    /\ pc = "returned"
    /\ run = 2
    /\ \E i, j \in 1..Len(entries) :
          /\ Cardinality(Range(DiscoveryOrder(i, CITY_COL))) > 1
          /\ Cardinality(Range(ByFieldPlaceNames(i))) > 2
          /\ ByFieldCategory(j) = "unclassified"

-----------------------------------------------------------------------------
(* C12 *)

\* the distinct non-empty values of one attribute among the features that
\* intersect record i
MatchedNames(i, col) == {admin_gdf[k][col] : k \in Hits(i)} \ {None, ""}

\* record i intersects exactly one feature, which has a city name and a
\* country name
OneCityFeature(i) ==
    /\ Resolved(i).geometry # NoGeom
    /\ Cardinality(Hits(i)) = 1
    /\ Cardinality(MatchedNames(i, CITY_COL)) = 1
    /\ Cardinality(MatchedNames(i, COUNTRY_COL)) = 1

TheCity(i) == CHOOSE c \in MatchedNames(i, CITY_COL) : TRUE

TheCountry(i) == CHOOSE c \in MatchedNames(i, COUNTRY_COL) : TRUE

\* the continent name of the one feature, as a list: empty when it has none
TheContinentIfAny(i) ==
    IF MatchedNames(i, CONTINENT_COL) = {} THEN <<>>
    ELSE <<CHOOSE c \in MatchedNames(i, CONTINENT_COL) : TRUE>>

\* C12 as stated: a record that intersects exactly one feature, with one
\* city name and one country name, is classified city and its place names
\* are that city and that country and nothing else.
C12_Original ==
    pc = "returned" =>
        \A i \in 1..Len(entries) :
            OneCityFeature(i) =>
                /\ ByFieldCategory(i) = "city"
                /\ ByFieldPlaceNames(i) = <<TheCity(i), TheCountry(i)>>

\* C12 amended: such a record is classified city and its place names are
\* that city, that country and then the continent name of the feature when
\* the feature has one; nothing else is in the list.
C12_CityCountryContinent ==
    pc = "returned" =>
        \A i \in 1..Len(entries) :
            OneCityFeature(i) =>
                /\ ByFieldCategory(i) = "city"
                /\ PerRecordCategory(i) = "city"
                /\ ByFieldPlaceNames(i) =
                      <<TheCity(i), TheCountry(i)>>
                          \o TheContinentIfAny(i)
                /\ PerRecordPlaceNames(i) = ByFieldPlaceNames(i)

\* a return with a record on one feature that has a continent name and a
\* record on one feature that has none
C12_Witness ==
    /\ pc = "returned"
    /\ \E i, j \in 1..Len(entries) :
          /\ OneCityFeature(i)
          /\ OneCityFeature(j)
          /\ Len(ByFieldPlaceNames(i)) = 3
          /\ Len(ByFieldPlaceNames(j)) = 2

-----------------------------------------------------------------------------
(* C13 *)

\* record i has two ring descriptors, both used, and its geometry
\* intersects features of three countries of two continents
ThreeCountriesTwoContinents(i) ==
    /\ Len(Flatten(entries[i].polygons)) = 2
    /\ Len(Resolved(i).geometry.parts) = 2
    /\ Cardinality(MatchedNames(i, COUNTRY_COL)) = 3
    /\ Cardinality(MatchedNames(i, CONTINENT_COL)) = 2

\* C13 as stated: a record whose merged geometry intersects features of
\* three countries across two continents is classified continent.
C13_Original ==
    pc = "returned" =>
        \A i \in 1..Len(entries) :
            ThreeCountriesTwoContinents(i) => ByFieldCategory(i) = "continent"

\* C13 amended: such a record is classified global (more than one
\* continent), and this label takes precedence over the country label that
\* several city names alone would give.
C13_TwoContinentsGlobal ==
    pc = "returned" =>
        \A i \in 1..Len(entries) :
            ThreeCountriesTwoContinents(i) =>
                /\ ByFieldCategory(i) = "global"
                /\ PerRecordCategory(i) = "global"

\* a return with such a record, which also matched two city names
C13_Witness ==
    /\ pc = "returned"
    /\ \E i \in 1..Len(entries) :
          /\ ThreeCountriesTwoContinents(i)
          /\ Cardinality(MatchedNames(i, CITY_COL)) = 2
          /\ ByFieldCategory(i) = "global"

-----------------------------------------------------------------------------
(* C14 *)

ThreeContinents(i) ==
    /\ Resolved(i).geometry # NoGeom
    /\ Cardinality(MatchedNames(i, CONTINENT_COL)) = 3

\* C14 as stated: every record that intersects features of three continents
\* is classified global, whatever the numbers of city and country names.
C14_Original ==
    pc = "returned" =>
        \A i \in 1..Len(entries) :
            ThreeContinents(i) => ByFieldCategory(i) = "global"

\* C14 amended: a record that intersects features of three continents is
\* classified global, unless exactly one city name and exactly one country
\* name are matched: then it is classified city.
C14_GlobalUnlessOneCity ==
    pc = "returned" =>
        \A i \in 1..Len(entries) :
            ThreeContinents(i) =>
                ByFieldCategory(i) =
                    IF /\ Cardinality(MatchedNames(i, CITY_COL)) = 1
                       /\ Cardinality(MatchedNames(i, COUNTRY_COL)) = 1
                    THEN "city" ELSE "global"

\* a return with a record of three continents classified global and a
\* record of three continents classified city
C14_Witness ==
    /\ pc = "returned"
    /\ \E i, j \in 1..Len(entries) :
          /\ ThreeContinents(i)
          /\ ThreeContinents(j)
          /\ ByFieldCategory(i) = "global"
          /\ ByFieldCategory(j) = "city"

-----------------------------------------------------------------------------
(* C15 *)

\* the record of the direct call has one box of four numbers and no polygons
SingleBox ==
    /\ Len(parse_args.boxes) = 1
    /\ Len(parse_args.boxes[1]) = 4
    /\ parse_args.polygons = <<>>

\* C15: for a record with a single box "south west north east" and no
\* polygons, parse_cmr_spatial returns a Polygon whose vertex ring is
\* (west,south), (east,south), (east,north), (west,north), (west,south), in
\* (longitude, latitude) order; so the longitudes of the ring are west and
\* east, its latitudes south and north, and for south <= north and west <=
\* east its bounding box is (west, south, east, north).
C15_BoxRing ==
    (pc = "parsed" /\ SingleBox) =>
        LET south == parse_args.boxes[1][1]
            west == parse_args.boxes[1][2]
            north == parse_args.boxes[1][3]
            east == parse_args.boxes[1][4]
            geometry == parse_result.geometry
        IN  /\ ~parse_result.raised
            /\ geometry.geom_type = "Polygon"
            /\ geometry.parts =
                  << << <<west, south>>, <<east, south>>, <<east, north>>,
                        <<west, north>>, <<west, south>> >> >>
            /\ Lons(geometry.parts[1]) = {west, east}
            /\ Lats(geometry.parts[1]) = {south, north}
            /\ (south <= north /\ west <= east) =>
                  <<Min(Lons(geometry.parts[1])), Min(Lats(geometry.parts[1])),
                    Max(Lons(geometry.parts[1])), Max(Lats(geometry.parts[1]))>>
                      = <<west, south, east, north>>

\* a single box whose four numbers are not all equal to one another has
\* been resolved
C15_Witness ==
    /\ pc = "parsed"
    /\ SingleBox
    /\ parse_args.boxes[1][2] # parse_args.boxes[1][1]
    /\ parse_args.boxes[1][4] > parse_args.boxes[1][2]
    /\ parse_result.geometry.geom_type = "Polygon"

-----------------------------------------------------------------------------
(* C16 *)

\* the ring descriptors of the direct call, in the order of the two loops
RingStrs == Flatten(parse_args.polygons)

\* C16 as stated: parse_cmr_spatial never raises, whatever the numbers of
\* numbers of the box and ring descriptors; a descriptor that cannot be used
\* contributes no shape and the others are still used, so a record with a
\* box of four numbers has a geometry.
C16_NeverRaises ==
    pc = "parsed" =>
        /\ ~parse_result.raised
        /\ (\E b \in 1..Len(parse_args.boxes) : Len(parse_args.boxes[b]) = 4)
              => parse_result.geometry # NoGeom

-----------------------------------------------------------------------------
(* C17 *)

\* the index of the first ring descriptor on which the call raises, or the
\* number of ring descriptors when it raises on none
LastRingReached ==
    Min({r \in 1..Len(RingStrs) : RingShapes(RingStrs[r]).raised}
        \cup {Len(RingStrs)})

\* the ring descriptors that the call has passed to Polygon(), with the
\* rings made of them
HandedRings ==
    {r \in 1..LastRingReached : RingShapes(RingStrs[r]).handed # <<>>}

RingOf(r) == RingShapes(RingStrs[r]).handed[1]

\* the points of a ring descriptor
PointsOf(coords) ==
    {<<coords[2 * k], coords[2 * k - 1]>> : k \in 1..(Len(coords) \div 2)}

\* C17 as stated: every ring passed to Polygon() is closed and has at least
\* 3 distinct points; a ring descriptor of fewer than 6 numbers, or with
\* fewer than 3 distinct points, is not passed and contributes no polygon.
C17_RingsClosedThreeDistinct ==
    pc = "parsed" =>
        /\ \A r \in HandedRings :
              /\ RingOf(r)[1] = RingOf(r)[Len(RingOf(r))]
              /\ Cardinality(Range(RingOf(r))) >= 3
        /\ \A r \in 1..LastRingReached :
              (Len(RingStrs[r]) < 6
                   \/ Cardinality(PointsOf(RingStrs[r])) < 3)
                  => r \notin HandedRings

-----------------------------------------------------------------------------
(* C18 *)

\* the shapes that the two loops of the direct call build
ShapesBuilt ==
    Flatten([b \in 1..Len(parse_args.boxes) |->
                BoxShapes(parse_args.boxes[b])])
        \o Flatten([r \in 1..Len(RingStrs) |-> RingShapes(RingStrs[r]).shapes])

-----------------------------------------------------------------------------
(* C19 *)

\* C19 as stated: when the boundary dataset cannot be loaded, the run does
\* not return output, whatever the batch, and no record receives a scope.
C19_Original ==
    ~admin_shapefile.readable =>
        /\ pc # "returned"
        /\ \A i \in 1..Len(individual_output) :
              ByFieldCategory(i) \notin ScopeLabels

\* C19 amended: when the boundary dataset cannot be loaded, no record ever
\* receives a scope from the join; the load is attempted only after the
\* whole batch has been scanned and at least one geometry has resolved, and
\* then the run aborts with the load error and returns no output, the
\* records without geometry having been marked unclassified by the scan; when
\* no geometry has resolved the dataset is not loaded at all and the run
\* returns its output, every record unclassified.
C19_AbortsAfterScan ==
    ~admin_shapefile.readable =>
        /\ \A i \in 1..Len(individual_output) :
              ByFieldCategory(i) \notin ScopeLabels
        /\ pc # "writeback"
        /\ joined = <<>>
        /\ pc = "load_failed" =>
              /\ idx = Len(entries)
              /\ geoms # <<>>
              /\ join_calls = 1
              /\ \A i \in 1..Len(entries) :
                    ByFieldCategory(i) =
                        IF Resolved(i).geometry = NoGeom
                        THEN "unclassified" ELSE None
        /\ pc = "returned" =>
              /\ ResolvedRecords = {}
              /\ join_calls = 0
              /\ \A i \in 1..Len(entries) :
                    ByFieldCategory(i) = "unclassified"

\* a run aborted by the load error after a record was marked unclassified
C19_Witness ==
    /\ pc = "load_failed"
    /\ ~admin_shapefile.readable
    /\ fail_count = 1
    /\ Len(geoms) = 1
    /\ ByFieldCategory(1) = "unclassified"

-----------------------------------------------------------------------------
(* C20 *)

\* the Polygon and MultiPolygon members of the collection of the direct
\* call, in their order
ArealMembers ==
    SelectSeq(extract_arg.geoms,
              LAMBDA g : g.geom_type \in {"Polygon", "MultiPolygon"})

\* C20: extract_polygons returns a Polygon or a MultiPolygon as it is; of a
\* GeometryCollection it returns None when no member is a Polygon or a
\* MultiPolygon, that member when exactly one is, and the union of those
\* members (an areal geometry made of all their polygons) when several are;
\* it returns None for None and for a geometry of any other type.
C20_Narrowing ==
    pc = "extracted" =>
        /\ extract_arg.geom_type \in {"Polygon", "MultiPolygon"} =>
              extract_result = extract_arg
        /\ extract_arg.geom_type = "GeometryCollection" =>
              /\ Len(ArealMembers) = 0 => extract_result = NoGeom
              /\ Len(ArealMembers) = 1 => extract_result = ArealMembers[1]
              /\ Len(ArealMembers) > 1 =>
                    /\ extract_result.geom_type \in {"Polygon", "MultiPolygon"}
                    /\ extract_result.geoms = <<>>
                    /\ Range(extract_result.parts) =
                          UNION {Range(ArealMembers[k].parts) :
                                    k \in 1..Len(ArealMembers)}
        /\ extract_arg.geom_type \in {"None", "Point", "LineString"} =>
              extract_result = NoGeom

\* a collection of a point and two polygons that lie apart has been narrowed
\* to a multi-polygon
C20_Witness ==
    /\ pc = "extracted"
    /\ extract_arg.geom_type = "GeometryCollection"
    /\ Len(extract_arg.geoms) = 3
    /\ Len(ArealMembers) = 2
    /\ extract_result.geom_type = "MultiPolygon"
    /\ Len(extract_result.parts) = 2

-----------------------------------------------------------------------------
(* C21 *)

\* the timestamps of record i are both present and both parse
BothParse(i) ==
    /\ entries[i].time_start \in DOMAIN ParsedHours
    /\ entries[i].time_end \in DOMAIN ParsedHours

\* one timestamp of record i carries a UTC offset and the other does not
MixedOffsets(i) ==
    /\ BothParse(i)
    /\ (entries[i].time_start \in OffsetAware)
           # (entries[i].time_end \in OffsetAware)

\* the hours from the start to the end of record i
SpanHours(i) ==
    ParsedHours[entries[i].time_end] - ParsedHours[entries[i].time_start]

\* the four places that hold the duration of record i
DurationFields(i) ==
    { se_heap[original_output.SpatialExtent[i]].duration_days,
      se_heap[individual_output[i].SpatialExtent].duration_days,
      original_output.Duration[i].days,
      individual_output[i].Duration.days }

\* d is the number of whole days in h hours, rounded down
WholeDays(d, h) == d.some /\ 24 * d.v <= h /\ h < 24 * (d.v + 1)

\* every field of record i but its duration is the one of the input record,
\* in both views
OtherFieldsKept(i) ==
    /\ \A se \in { se_heap[original_output.SpatialExtent[i]],
                    se_heap[individual_output[i].SpatialExtent] } :
          /\ se.time_start = entries[i].time_start
          /\ se.time_end = entries[i].time_end
          /\ se.boxes = entries[i].boxes
          /\ se.polygons = entries[i].polygons
          /\ se.points = entries[i].points
    /\ \A te \in { original_output.TemporalExtent[i],
                    individual_output[i].TemporalExtent } :
          /\ te.start_time = entries[i].time_start
          /\ te.end_time = entries[i].time_end
    /\ \A ds \in { original_output.Dataset[i], individual_output[i].Dataset } :
          ds.short_name = entries[i].short_name

\* the scan stops early only on a record whose spatial fields make
\* parse_cmr_spatial raise, whatever the timestamps are
AbortsOnGeometryOnly ==
    /\ pc = "raised" =>
          /\ Len(individual_output) = idx + 1
          /\ Resolved(idx + 1).raised
    /\ pc \notin {"scan", "raised"} => Len(individual_output) = Len(entries)

\* C21 as stated: the duration of every scanned record is the whole-day
\* difference whenever both timestamps are present and parse, and absent
\* otherwise.
C21_Original ==
    \A i \in 1..Len(individual_output) :
        \A d \in DurationFields(i) :
            IF BothParse(i) THEN WholeDays(d, SpanHours(i)) ELSE d = NoInt

\* C21 amended: the duration of every scanned record is the whole-day
\* difference of its timestamps, rounded down, when both are present, both
\* parse and both or neither carry a UTC offset; it is absent when one is
\* missing or empty, does not parse, or only one of the two carries an
\* offset (the subtraction fails); the same value is stored in the spatial
\* extent and in the Duration object of both views, every other field of
\* the record is the input's, and no timestamp stops the scan.
C21_DurationOrAbsent ==
    /\ \A i \in 1..Len(individual_output) :
          /\ \A d \in DurationFields(i) :
                IF BothParse(i) /\ ~MixedOffsets(i)
                THEN WholeDays(d, SpanHours(i))
                ELSE d = NoInt
          /\ OtherFieldsKept(i)
    /\ AbortsOnGeometryOnly

\* a finished run over a record whose timestamps have mixed offsets followed
\* by a record whose end precedes its start by a day and a half
C21_Witness ==
    /\ pc = "returned"
    /\ Len(entries) = 2
    /\ MixedOffsets(1)
    /\ BothParse(2) /\ ~MixedOffsets(2) /\ SpanHours(2) = -36
    /\ DurationFields(1) = {NoInt}
    /\ DurationFields(2) = {SomeInt(-2)}
    /\ PerRecordCategory(2) \in ScopeLabels

-----------------------------------------------------------------------------
(* C22 *)

\* the cells of one column of the group that are names: not absent, not
\* null, not empty
NamedCells(col) ==
    {rows_for_dataset[k][col] : k \in 1..Len(rows_for_dataset)}
        \ {None, NaN, ""}

\* C22: when classify_bbox_scope has collected the names of a group, an
\* absent, null (None or NaN) or empty cell is ignored: the three lists hold
\* the names of their columns and nothing else, and the scope is the one
\* the numbers of these names decide.
C22_EmptyCellsIgnored ==
    pc = "classified" =>
        /\ Range(classification.cities) = NamedCells(CITY_COL)
        /\ Range(classification.countries) = NamedCells(COUNTRY_COL)
        /\ Range(classification.continents) = NamedCells(CONTINENT_COL)
        /\ classification.scope =
              FirstMatching(ScopeRules(Cardinality(NamedCells(CITY_COL)),
                                       Cardinality(NamedCells(COUNTRY_COL)),
                                       Cardinality(NamedCells(CONTINENT_COL))))

-----------------------------------------------------------------------------
(* C23 *)

\* the numbers of distinct city, country and continent names of the group
\* handed to classify_bbox_scope
NamesMatched(col) == Cardinality(DistinctCells(rows_for_dataset, col))

\* C23 as stated: a group in which two or more distinct country names were
\* matched is never labelled city.
C23_Original ==
    pc = "classified" =>
        (classification.scope = "city" => NamesMatched(COUNTRY_COL) <= 1)

\* C23 amended: a group in which two or more distinct country names were
\* matched is labelled city exactly when no continent name and at most one
\* city name was matched (the last branch of the chain); as soon as a
\* continent name or a second city name is matched it is never labelled
\* city.
C23_CityOnlyByFallback ==
    pc = "classified" /\ NamesMatched(COUNTRY_COL) >= 2 =>
        (classification.scope = "city"
            <=> /\ NamesMatched(CONTINENT_COL) = 0
                /\ NamesMatched(CITY_COL) <= 1)

\* a group of features of two countries that carry no continent name,
\* labelled city
C23_Witness ==
    /\ pc = "classified"
    /\ NamesMatched(COUNTRY_COL) = 2
    /\ NamesMatched(CONTINENT_COL) = 0
    /\ NamesMatched(CITY_COL) = 1
    /\ classification.scope = "city"

-----------------------------------------------------------------------------
(* C24 *)

\* the number of requests answered with entries
FullPages == Cardinality({k \in 1..Len(responses) : responses[k] = "entries"})

\* the requests sent so far are those of pages 1, 2, 3, ..., each once
PagesInOrder ==
    /\ Len(requested) = Len(responses)
    /\ \A k \in 1..Len(requested) :
          requested[k] = [page_size |-> page_size, page_num |-> k]

\* a page limit of N >= 1 bounds the number of requests by N
WithinLimit ==
    max_pages.some /\ max_pages.v >= 1 => Len(requested) <= max_pages.v

\* a request that met anything but a page with entries is the last one, and
\* the function has returned
StopsAtFirstEnd ==
    \A k \in 1..Len(responses) :
        responses[k] # "entries" =>
            /\ k = Len(responses)
            /\ fetch_pc = "returned"

\* all_data is the entries of the pages received, in page order
EarlierPagesKept ==
    all_data =
        Flatten([k \in 1..FullPages |->
                    ServerEntries(cmr_total, page_size, k)])

\* C24: fetch_nasa_cmr_all_pages requests pages 1, 2, 3, ... in order, each
\* once; with max_pages = N >= 1 it sends at most N requests; the first
\* page without entries (no feed, no entry, empty), the first timeout and
\* the first request error end the loop, and the function then returns the
\* entries of all earlier pages in page order; and it does return, the
\* server having finitely many collections.
C24_PagesInOrderUntilEnd ==
    /\ [](PagesInOrder /\ WithinLimit /\ StopsAtFirstEnd /\ EarlierPagesKept)
    /\ <>(fetch_pc = "returned")

\* a call without page limit that received two pages and then timed out
C24_Witness ==
    /\ fetch_pc = "returned"
    /\ max_pages = NoInt
    /\ responses = <<"entries", "entries", "timeout">>
    /\ all_data = <<1, 2>>

=============================================================================
